---- MODULE Spec2Model ----
(***************************************************************************)
(* A model of the JSON-replacement tools: json_select (routing of          *)
(* line-delimited JSON records by rules), json_replace (field replacement  *)
(* and timestamp replay) and their bounded-concurrency dispatchers.        *)
(*                                                                         *)
(* Strings that the code inspects (keys, field paths, string values) are   *)
(* sequences of one-character strings, so that strings.Cut, HasPrefix,     *)
(* HasSuffix and strings.Replace are computed, not assumed.                *)
(***************************************************************************)
EXTENDS Integers, Sequences, FiniteSets, TLC

(***************************************************************************)
(* Strings                                                                 *)
(***************************************************************************)
Dot == "."

\* strings.Index(s, sep) for a one-character separator: 0 when absent.
RECURSIVE IndexFrom(_, _, _)
IndexFrom(s, ch, i) ==
    IF i > Len(s) THEN 0
    ELSE IF s[i] = ch THEN i
    ELSE IndexFrom(s, ch, i + 1)

\* strings.Cut(s, "."): the text before and after the first dot.
Cut(s) ==
    LET i == IndexFrom(s, Dot, 1) IN
    IF i = 0 THEN [before |-> s, after |-> <<>>, found |-> FALSE]
    ELSE [before |-> SubSeq(s, 1, i - 1),
          after  |-> SubSeq(s, i + 1, Len(s)),
          found  |-> TRUE]

\* strings.HasPrefix(s, p)
HasPrefix(s, p) == Len(s) >= Len(p) /\ SubSeq(s, 1, Len(p)) = p

\* strings.HasSuffix(s, p)
HasSuffix(s, p) == Len(s) >= Len(p) /\ SubSeq(s, Len(s) - Len(p) + 1, Len(s)) = p

\* strings.Contains(s, p)
Contains(s, p) == \E i \in 1..(Len(s) + 1) : HasPrefix(SubSeq(s, i, Len(s)), p)

\* strings.Replace(s, old, new, -1) for a non-empty old: leftmost,
\* non-overlapping occurrences, scanned from the left.
RECURSIVE ReplaceNonEmpty(_, _, _)
ReplaceNonEmpty(s, old, new) ==
    IF Len(s) < Len(old) THEN s
    ELSE IF HasPrefix(s, old)
         THEN new \o ReplaceNonEmpty(SubSeq(s, Len(old) + 1, Len(s)), old, new)
         ELSE <<s[1]>> \o ReplaceNonEmpty(Tail(s), old, new)

\* strings.Replace(s, "", new, -1): new is inserted before every character
\* and after the last one.
RECURSIVE ReplaceEmpty(_, _)
ReplaceEmpty(s, new) ==
    IF s = <<>> THEN new
    ELSE new \o <<s[1]>> \o ReplaceEmpty(Tail(s), new)

\* strings.Replace(s, old, new, -1)
ReplaceAll(s, old, new) ==
    IF old = <<>> THEN ReplaceEmpty(s, new) ELSE ReplaceNonEmpty(s, old, new)

(***************************************************************************)
(* JSON values, as encoding/json decodes them into interface{}             *)
(***************************************************************************)
Str(s)  == [t |-> "str", s |-> s]
Num(n)  == [t |-> "num", n |-> n]
Bool(b) == [t |-> "bool", b |-> b]
Obj(f)  == [t |-> "obj", m |-> f]
Arr(q)  == [t |-> "arr", a |-> q]

IsStr(v) == v.t = "str"
IsObj(v) == v.t = "obj"
IsArr(v) == v.t = "arr"

(***************************************************************************)
(* json_select: rule evaluation                                            *)
(*                                                                         *)
(* A Condition is [Type, Key, Values, Exclude]; a Rule is [Position,       *)
(* Output, Conditions].  Rule.Conditions holds pointers, so the assignment *)
(* c.Key = next in processMap changes the rule list itself: every          *)
(* evaluation returns the Key the condition is left with.                  *)
(***************************************************************************)
Verdict(res, key, fatal) == [res |-> res, key |-> key, fatal |-> fatal]

\* regexp.MatchString(pattern, v), for the patterns of the model: a pattern
\* holding "(" does not compile (error, no match); any other pattern is a
\* literal, which matches when v contains it.
regexpMatchString(pattern, v) ==
    /\ IndexFrom(pattern, "(", 1) = 0
    /\ Contains(v, pattern)

\* test, from the i-th value on: [res, fatal].
RECURSIVE testFrom(_, _, _)
testFrom(v, c, i) ==
    IF i > Len(c.Values) THEN [res |-> FALSE, fatal |-> FALSE]
    ELSE LET value == c.Values[i] IN
         CASE c.Type = "match" ->
                IF v = value THEN [res |-> TRUE, fatal |-> FALSE]
                ELSE testFrom(v, c, i + 1)
           [] c.Type = "prefix" ->
                IF HasPrefix(v, value) THEN [res |-> TRUE, fatal |-> FALSE]
                ELSE testFrom(v, c, i + 1)
           [] c.Type = "suffix" ->
                IF HasSuffix(v, value) THEN [res |-> TRUE, fatal |-> FALSE]
                ELSE testFrom(v, c, i + 1)
           [] c.Type = "exist" -> [res |-> TRUE, fatal |-> FALSE]
           [] c.Type = "regex" ->
                IF regexpMatchString(value, v) THEN [res |-> TRUE, fatal |-> FALSE]
                ELSE testFrom(v, c, i + 1)
           [] OTHER -> [res |-> FALSE, fatal |-> TRUE]

\* JSONSelect.test
test(v, c) ==
    LET r == testFrom(v, c, 1) IN Verdict(r.res, c.Key, r.fatal)

RECURSIVE process(_, _, _)
RECURSIVE processArrayFrom(_, _, _, _)

\* JSONSelect.processMap: the next segment is cut from c.Key; a string is
\* tested only when the path is used up; any other value is descended into
\* after c.Key has been overwritten with the rest of the path.
processMap(m, c) ==
    LET cut  == Cut(c.Key)
        k    == cut.before
        next == cut.after
    IN  IF k \in DOMAIN m
        THEN LET v == m[k] IN
             IF IsStr(v)
             THEN IF next = <<>> THEN test(v.s, c)
                  ELSE Verdict(FALSE, c.Key, FALSE)
             ELSE process(k, v, [c EXCEPT !.Key = next])
        ELSE Verdict(FALSE, c.Key, FALSE)

\* JSONSelect.processArray, from the i-th element on: a string element is
\* tested when k is empty and skipped otherwise; the first element that is
\* not a string decides the result.
processArrayFrom(a, k, c, i) ==
    IF i > Len(a) THEN Verdict(FALSE, c.Key, FALSE)
    ELSE LET v == a[i] IN
         IF IsStr(v)
         THEN IF k = <<>> THEN test(v.s, c)
              ELSE processArrayFrom(a, k, c, i + 1)
         ELSE process(k, v, c)

\* JSONSelect.processArray
processArray(a, k, c) == processArrayFrom(a, k, c, 1)

\* JSONSelect.process
process(k, v, c) ==
    IF IsObj(v) THEN processMap(v.m, c)
    ELSE IF IsArr(v) THEN processArray(v.a, k, c)
    ELSE Verdict(FALSE, c.Key, FALSE)

\* processCondition that returns the verdict of process as it is.
processConditionWithoutExclude(v, c) == process(<<>>, v, c)

\* JSONSelect.processCondition: the verdict of process, inverted by Exclude.
processCondition(v, c) ==
    LET r == process(<<>>, v, c) IN
    Verdict(r.res # c.Exclude, r.key, r.fatal)

\* processRule that returns what the first condition says.
processRuleOfFirst(v, conds, i) ==
    IF conds = <<>> THEN [res |-> TRUE, conds |-> conds, fatal |-> FALSE]
    ELSE LET r == processCondition(v, conds[1]) IN
         [res |-> r.res, conds |-> conds, fatal |-> r.fatal]

\* JSONSelect.processRule, from the i-th condition on: conditions after the
\* first false one are not evaluated (and so are not changed).
RECURSIVE processRuleFrom(_, _, _)
processRuleFrom(v, conds, i) ==
    IF i > Len(conds) THEN [res |-> TRUE, conds |-> conds, fatal |-> FALSE]
    ELSE LET r  == processCondition(v, conds[i])
             cs == [conds EXCEPT ![i].Key = r.key]
         IN  IF r.fatal THEN [res |-> FALSE, conds |-> cs, fatal |-> TRUE]
             ELSE IF ~r.res THEN [res |-> FALSE, conds |-> cs, fatal |-> FALSE]
             ELSE processRuleFrom(v, cs, i + 1)

\* JSONSelect.processRule
processRule(v, r) == processRuleFrom(v, r.Conditions, 1)

\* The reserved output labels of CreateOutputFiles.
DefaultOutput == "default"
DropOutput    == "drop"

\* What a line's bytes decode to; a line that is no JSON decodes to Invalid.
Invalid == [t |-> "invalid"]

\* JSONSelect.handleJSON, from the i-th rule on: [output, rules, fatal].
RECURSIVE handleJSONFrom(_, _, _)
handleJSONFrom(v, rs, i) ==
    IF i > Len(rs) THEN [output |-> DefaultOutput, rules |-> rs, fatal |-> FALSE]
    ELSE LET r   == processRule(v, rs[i])
             rs2 == [rs EXCEPT ![i].Conditions = r.conds]
         IN  IF r.fatal THEN [output |-> DefaultOutput, rules |-> rs2, fatal |-> TRUE]
             ELSE IF r.res THEN [output |-> rs[i].Output, rules |-> rs2, fatal |-> FALSE]
             ELSE handleJSONFrom(v, rs2, i + 1)

\* handleJSON that goes on to the rules with a line that does not parse.
handleJSONWithoutParseError(v, rs) == handleJSONFrom(v, rs, 1)

\* JSONSelect.handleJSON: a line that does not parse is fatal; otherwise the
\* output of the first satisfied rule, or "default".
handleJSON(v, rs) ==
    IF v = Invalid THEN [output |-> DefaultOutput, rules |-> rs, fatal |-> TRUE]
    ELSE handleJSONFrom(v, rs, 1)

\* sort.Slice(rules, Position <): the orders of the rule file's rules that
\* are sorted by Position (sort.Slice is not stable).
IsSortedByPosition(rs) ==
    \A i \in 1..(Len(rs) - 1) : rs[i].Position <= rs[i + 1].Position

(***************************************************************************)
(* json_replace: per-field and global replacement                          *)
(*                                                                         *)
(* A Rule is [Order, Type, FieldName, Original, Replacement, ...].  The    *)
(* rule is passed by value, so r.FieldName = next changes the callee's     *)
(* copy only.  The code changes the decoded value in place; the operators  *)
(* return the value it is left with.                                       *)
(***************************************************************************)
RECURSIVE replaceProcess(_, _, _)

\* JSONReplace.processMap.  Global: every string member is replaced, every
\* other member is processed under its own key.  Otherwise the member named
\* by the next segment of the field name is replaced when it is a string and
\* the path is used up, and processed with the rest of the path when it is
\* not a string.
replaceProcessMap(m, r) ==
    IF r.Type = "global"
    THEN [k \in DOMAIN m |->
            IF IsStr(m[k])
            THEN Str(ReplaceAll(m[k].s, r.Original, r.Replacement))
            ELSE replaceProcess(k, m[k], r)]
    ELSE LET cut  == Cut(r.FieldName)
             k    == cut.before
             next == cut.after
         IN  IF k \in DOMAIN m
             THEN LET v == m[k] IN
                  IF IsStr(v)
                  THEN IF next = <<>>
                       THEN [m EXCEPT ![k] = Str(ReplaceAll(v.s, r.Original, r.Replacement))]
                       ELSE m
                  ELSE [m EXCEPT ![k] = replaceProcess(k, v, [r EXCEPT !.FieldName = next])]
             ELSE m

\* JSONReplace.processArray: a string element is rewritten when k is empty,
\* with r.FieldName as the new text; any other element is processed.
replaceProcessArray(a, k, r) ==
    [i \in 1..Len(a) |->
        IF IsStr(a[i])
        THEN IF k = <<>>
             THEN Str(ReplaceAll(a[i].s, r.Original, r.FieldName))
             ELSE a[i]
        ELSE replaceProcess(k, a[i], r)]

\* JSONReplace.process
replaceProcess(k, v, r) ==
    IF IsObj(v) THEN Obj(replaceProcessMap(v.m, r))
    ELSE IF IsArr(v) THEN Arr(replaceProcessArray(v.a, k, r))
    ELSE v

(***************************************************************************)
(* json_replace: timestamp replay                                          *)
(*                                                                         *)
(* A float64 of the replay state is kept exactly, as the numerator of a    *)
(* fraction whose denominator is the rule's records (max-records): the     *)
(* model does not round.                                                   *)
(***************************************************************************)
\* calculateIncrement that adds nothing once records increments were made.
calculateIncrementWithinWindow(i, duration, records) ==
    IF i >= records THEN 0 ELSE duration

\* calculateIncrement returning fb, the end of the interval, and not fb - fa.
calculateIncrementOfEnd(i, duration, records) == i * duration

\* JSONReplace.calculateIncrement: k = duration / records, fb - fa with
\* fa = (i-1) * k and fb = i * k; the result is a numerator over records.
calculateIncrement(i, duration, records) ==
    LET k  == duration
        fa == (i - 1) * k
        fb == i * k
    IN  fb - fa

\* int64(cur) of a float64 cur = num / den: truncation toward zero.
Int64(num, den) ==
    IF num >= 0 THEN num \div den ELSE 0 - ((0 - num) \div den)

\* The keys of a map in one order (Go ranges over a map in no fixed order).
RECURSIVE KeysInOrder(_)
KeysInOrder(ks) ==
    IF ks = {} THEN <<>>
    ELSE LET k == CHOOSE x \in ks : TRUE IN <<k>> \o KeysInOrder(ks \ {k})

RECURSIVE replayTargets(_, _)
RECURSIVE replayTargetsOf(_, _, _, _)

\* The maps that processReplay / processReplayMap / processReplayArray set
\* the timestamp in, as the paths that lead to them, in the order they are
\* reached.  A map is stamped when the field name holds no dot; otherwise
\* its members are walked with the same rule.  The elements of an array are
\* walked in order.
replayTargets(v, r) ==
    IF IsObj(v)
    THEN IF Cut(r.FieldName).after = <<>>
         THEN << <<>> >>
         ELSE replayTargetsOf(v.m, KeysInOrder(DOMAIN v.m), r, 1)
    ELSE IF IsArr(v)
    THEN replayTargetsOf(v.a, [i \in 1..Len(v.a) |-> i], r, 1)
    ELSE <<>>

\* The targets below the members children[steps[i]], from the i-th step on.
replayTargetsOf(children, steps, r, i) ==
    IF i > Len(steps) THEN <<>>
    ELSE LET sub == replayTargets(children[steps[i]], r) IN
         [j \in 1..Len(sub) |-> <<steps[i]>> \o sub[j]]
            \o replayTargetsOf(children, steps, r, i + 1)

\* m[k] = value, for the map that path leads to in v.
RECURSIVE SetAt(_, _, _, _)
SetAt(v, path, k, value) ==
    IF path = <<>>
    THEN Obj([x \in DOMAIN v.m \cup {k} |-> IF x = k THEN value ELSE v.m[x]])
    ELSE IF IsObj(v)
    THEN Obj([v.m EXCEPT ![path[1]] = SetAt(@, Tail(path), k, value)])
    ELSE Arr([v.a EXCEPT ![path[1]] = SetAt(@, Tail(path), k, value)])

(***************************************************************************)
(* Bounds and sample inputs                                                *)
(***************************************************************************)
\* Units of the input tree of a json_select run: lines plus files.
MaxUnits == 4
\* Largest configured maxRoutines.
MaxRoutines == 2

SeqsUpTo(S, n) == UNION {[1..k -> S] : k \in 0..n}

\* A line is represented by what its bytes decode to; Empty is a line of
\* length 0.
Empty == [t |-> "empty"]
EOF   == [t |-> "eof"]

KeyABC == <<"a", Dot, "b", Dot, "c">>
KeyR   == <<"r">>

\* {"a":{"b":{"c":"x"}},"r":"x"} and {"a":{"b":{"c":"y"}},"r":"y"}
RecX == Obj([k \in {<<"a">>, <<"r">>} |->
              IF k = <<"a">>
              THEN Obj([k2 \in {<<"b">>} |-> Obj([k3 \in {<<"c">>} |-> Str(<<"x">>)])])
              ELSE Str(<<"x">>)])
RecY == Obj([k \in {<<"a">>, <<"r">>} |->
              IF k = <<"a">>
              THEN Obj([k2 \in {<<"b">>} |-> Obj([k3 \in {<<"c">>} |-> Str(<<"y">>)])])
              ELSE Str(<<"y">>)])

LineValues == {Empty, RecX, RecY}

\* {"position":1,"output":"admins","conditions":[{"type":"match",
\*   "key":"a.b.c","values":["x"],"exclude":false}]}
RuleA == [Position |-> 1, Output |-> "admins",
          Conditions |-> <<[Type |-> "match", Key |-> KeyABC,
                            Values |-> << <<"x">> >>, Exclude |-> FALSE]>>]
\* {"position":2,"output":"others","conditions":[{"type":"match",
\*   "key":"r","values":["x"],"exclude":false}]}
RuleB == [Position |-> 2, Output |-> "others",
          Conditions |-> <<[Type |-> "match", Key |-> KeyR,
                            Values |-> << <<"x">> >>, Exclude |-> FALSE]>>]

\* The rule files of the model: the rules above, in any order.
RuleFiles == {<<>>, <<RuleA>>, <<RuleB>>, <<RuleA, RuleB>>, <<RuleB, RuleA>>}

\* The files of an input tree in walk order, from the stream of its lines in
\* which every file ends with EOF.
RECURSIVE SplitFiles(_, _)
SplitFiles(stream, cur) ==
    IF stream = <<>> THEN <<>>
    ELSE IF Head(stream) = EOF THEN <<cur>> \o SplitFiles(Tail(stream), <<>>)
    ELSE SplitFiles(Tail(stream), Append(cur, Head(stream)))

InputTrees ==
    {SplitFiles(st, <<>>) :
        st \in {q \in SeqsUpTo(LineValues \cup {EOF}, MaxUnits) :
                    q = <<>> \/ q[Len(q)] = EOF}}

\* Files of the input tree of a json_replace run.
MaxFiles == 3

\* time.Now().UnixMilli() at the start of Exec.
NowMs == 3000

KeyT == <<"t">>

\* {"t":"0"}, [{"t":"0"},{"t":"0"}] and "0"
RecT    == Obj([k \in {KeyT} |-> Str(<<"0">>)])
RecTT   == Arr(<<RecT, RecT>>)
RecStr  == Str(<<"0">>)

ReplaceRecords == {RecT, RecTT, RecStr}

\* {"order":1,"type":"timestamp","field-name":"t","duration":1000,
\*   "max-records":10,"start-ms":2000} and the same with duration 5,
\* max-records 2 and no start-ms.
TimestampRules ==
    {[Order |-> 1, Type |-> "timestamp", FieldName |-> KeyT,
      Duration |-> 1000, MaxRecords |-> 10, StartMs |-> 2000],
     [Order |-> 1, Type |-> "timestamp", FieldName |-> KeyT,
      Duration |-> 5, MaxRecords |-> 2, StartMs |-> 0]}

NotWritten == [t |-> "none"]

\* Longest array of a decoded record.
MaxArrayLen == 2

KeyA  == <<"a">>
KeyB  == <<"b">>
KeyAB == <<"a", Dot, "b">>

\* The records a rule is applied to: the scalars "xyx" and 1, and the
\* objects over the keys a and b and the arrays, nested twice.
Scalars == {Str(<<"x", "y", "x">>), Num(1)}
ObjectsOver(S) ==
    {Obj(f) : f \in UNION {[D -> S] : D \in SUBSET {KeyA, KeyB}}}
ArraysOver(S) == {Arr(q) : q \in SeqsUpTo(S, MaxArrayLen)}
Nested1 == Scalars \cup ObjectsOver(Scalars) \cup ArraysOver(Scalars)
Records == Nested1 \cup ObjectsOver(Nested1) \cup ArraysOver(Nested1)

\* {"type":"per-field","field-name":"a","original":"x","replacement":"z"},
\* the same with field-name "a.b", and two global rules.
ReplaceRules ==
    {[Order |-> 1, Type |-> ty, FieldName |-> fn,
      Original |-> <<"x">>, Replacement |-> <<"z">>] :
        ty \in {"per-field", "global"}, fn \in {KeyA, KeyAB}}

NotApplied == [t |-> "none"]

(***************************************************************************)
(* State                                                                   *)
(***************************************************************************)
VARIABLES
    tool,          \* "select" or "replace": the program that runs
    maxRoutines,   \* config.maxRoutines
    cpc,           \* where Exec is
    ch,            \* number of values buffered in the channel ch
    workers,       \* the goroutines started so far, in start order
    reported,      \* the count printed by the success message, or -1
    \* json_select
    files,         \* the input tree: files in walk order, each a list of lines
    loaded,        \* the rule list as NewJSONSelect built it
    rules,         \* s.rules, with the Keys as the evaluations left them
    fileIdx,       \* the file the walk is at
    lineIdx,       \* the line handleFile's scanner is at
    fcount,        \* handleFile's count
    count,         \* Exec's count
    wg,            \* the WaitGroup counter
    outputs,       \* what has been written to each output file
    closed,        \* CloseOutputFiles has run
    routed,        \* per worker, the output handleJSON chose (history)
    \* json_replace
    rfiles,        \* the input tree: the files in walk order, each one record
    lineByLine,    \* config.lineByLine
    rrules,        \* the per-field and global rules of the rule file, as loaded
    rule,          \* the timestamp rule of the rule file
    replay,        \* rule.replay: [time, index, records]
    startTime,     \* the time Exec initialised rule.replay.time with (history)
    assignCounter, \* sync.assignCounter
    processCounter,\* sync.processCounter
    lock,          \* sync.lock: 0 when free, else the worker holding it
    walkIdx,       \* the file the walk is at
    results,       \* per file, what os.WriteFile wrote, or NotWritten
    advances,      \* the advances of the replay state, in lock order (history)
    \* one rule applied to one record
    record,        \* the record as decoded
    recRule,       \* the rule
    recResult,     \* the record after the rule, or NotApplied
    \* a rule list applied to one record
    recRules,      \* replace.rules
    \* one json_select rule evaluated on one value
    evValue,       \* the decoded value
    evRule,        \* the rule
    evResult,      \* what processRule returned, or NotApplied
    \* json_flat: one object flattened
    flatInput,     \* the object as decoded
    flatTodo,      \* the keys of the input that the loop has not reached yet
    flatPc,        \* where flat is: "range", "returned" or "panic"
    flatResult     \* flat's result, as built so far

selVars == <<files, loaded, rules, fileIdx, lineIdx, fcount, count, wg,
             outputs, closed, routed>>
repVars == <<rfiles, lineByLine, rrules, rule, replay, startTime, assignCounter, processCounter, lock,
             walkIdx, results, advances>>
recVars == <<record, recRule, recResult, recRules,
             evValue, evRule, evResult, flatInput, flatTodo, flatPc, flatResult>>
vars == <<tool, maxRoutines, cpc, ch, workers, reported, selVars, repVars, recVars>>

\* The process is alive: log.Fatal has not ended it.
Alive == cpc # "fatal"

\* A channel that never blocks the sender.
SlotAlwaysFree == TRUE

\* ch <- 1 that can be sent into a full channel.
SlotFreeWithOneMore == ch < maxRoutines + 1

\* ch <- 1 can proceed: the buffered channel is not full.
SlotFree == ch < maxRoutines

\* The variables of the tool that does not run.
SelectIdle ==
    /\ files = <<>> /\ loaded = <<>> /\ rules = <<>>
    /\ fileIdx = 1 /\ lineIdx = 1 /\ fcount = 0 /\ count = 0 /\ wg = 0
    /\ outputs = <<>> /\ closed = FALSE /\ routed = <<>>

RecordIdle ==
    /\ record = NotApplied /\ recRule = <<>> /\ recResult = NotApplied
    /\ recRules = <<>>
    /\ evValue = NotApplied /\ evRule = <<>> /\ evResult = NotApplied
    /\ flatInput = NotApplied /\ flatTodo = {} /\ flatPc = "none"
    /\ flatResult = NotApplied

RunIdle ==
    maxRoutines = 1 /\ cpc = "none" /\ ch = 0 /\ workers = <<>> /\ reported = -1

ReplaceIdle ==
    /\ rfiles = <<>> /\ lineByLine = FALSE /\ rrules = <<>>
    /\ rule = <<>> /\ replay = <<>> /\ startTime = 0
    /\ assignCounter = 0 /\ processCounter = 0 /\ lock = 0
    /\ walkIdx = 1 /\ results = <<>> /\ advances = <<>>

(***************************************************************************)
(* json_select: the run                                                    *)
(***************************************************************************)
\* NewJSONSelect (the rules are sorted by position) and the locals of Exec.
InitSelect ==
    /\ tool = "select"
    /\ maxRoutines \in 1..MaxRoutines
    /\ cpc = "create"
    /\ ch = 0
    /\ workers = <<>>
    /\ files \in InputTrees
    /\ \E rf \in RuleFiles :
         loaded \in {rs \in RuleFiles :
                        /\ Len(rs) = Len(rf)
                        /\ {rs[i] : i \in 1..Len(rs)} = {rf[i] : i \in 1..Len(rf)}
                        /\ IsSortedByPosition(rs)}
    /\ rules = loaded
    /\ fileIdx = 1
    /\ lineIdx = 1
    /\ fcount = 0
    /\ count = 0
    /\ wg = 0
    /\ outputs = <<>>
    /\ closed = FALSE
    /\ routed = <<>>
    /\ reported = -1
    /\ ReplaceIdle
    /\ RecordIdle

\* JSONSelect.CreateOutputFiles: "default", "drop" and every rule's output.
CreateOutputFiles ==
    /\ tool = "select" /\ cpc = "create"
    /\ outputs' = [o \in {DefaultOutput, DropOutput} \cup {rules[i].Output : i \in 1..Len(rules)}
                     |-> <<>>]
    /\ cpc' = "walk"
    /\ UNCHANGED <<recVars, repVars, tool, maxRoutines, ch, workers, files, loaded, rules, fileIdx,
                   lineIdx, fcount, count, wg, closed, routed, reported>>

InFile == fileIdx <= Len(files)
InLine == InFile /\ lineIdx <= Len(files[fileIdx])

\* handleFile: an empty line is skipped.
SkipEmptyLine ==
    /\ tool = "select" /\ cpc = "walk" /\ InLine
    /\ files[fileIdx][lineIdx] = Empty
    /\ lineIdx' = lineIdx + 1
    /\ UNCHANGED <<recVars, repVars, tool, maxRoutines, cpc, ch, workers, files, loaded, rules, fileIdx,
                   fcount, count, wg, outputs, closed, routed, reported>>

\* handleFile: count++, ch <- 1 (blocks while the channel is full),
\* wg.Add(1), go startRoutine.
DispatchLine ==
    /\ tool = "select" /\ cpc = "walk" /\ InLine
    /\ files[fileIdx][lineIdx] # Empty
    /\ SlotFree
    /\ fcount' = fcount + 1
    /\ ch' = ch + 1
    /\ wg' = wg + 1
    /\ workers' = Append(workers, [src |-> <<fileIdx, lineIdx>>,
                                   input |-> files[fileIdx][lineIdx],
                                   pc |-> "handle"])
    /\ routed' = Append(routed, "")
    /\ lineIdx' = lineIdx + 1
    /\ UNCHANGED <<recVars, repVars, tool, maxRoutines, cpc, files, loaded, rules, fileIdx, count,
                   outputs, closed, reported>>

\* The scanner is at the end of the file: handleFile returns its count, which
\* the walk adds to Exec's count.
EndOfFile ==
    /\ tool = "select" /\ cpc = "walk" /\ InFile /\ ~InLine
    /\ count' = count + fcount
    /\ fcount' = 0
    /\ fileIdx' = fileIdx + 1
    /\ lineIdx' = 1
    /\ UNCHANGED <<recVars, repVars, tool, maxRoutines, cpc, ch, workers, files, loaded, rules, wg,
                   outputs, closed, routed, reported>>

\* filepath.WalkDir returns.
EndOfWalk ==
    /\ tool = "select" /\ cpc = "walk" /\ ~InFile
    /\ cpc' = "wait"
    /\ UNCHANGED <<recVars, repVars, tool, maxRoutines, ch, workers, reported, selVars>>

\* wg.Wait() that returns while workers are counted.
WaitGroupReturnsAtOnce ==
    /\ tool = "select" /\ cpc = "wait"
    /\ cpc' = "close"
    /\ UNCHANGED <<recVars, repVars, tool, maxRoutines, ch, workers, reported, selVars>>

\* wg.Wait()
WaitGroupWait ==
    /\ tool = "select" /\ cpc = "wait"
    /\ wg = 0
    /\ cpc' = "close"
    /\ UNCHANGED <<recVars, repVars, tool, maxRoutines, ch, workers, reported, selVars>>

\* JSONSelect.CloseOutputFiles
CloseOutputFiles ==
    /\ tool = "select" /\ cpc = "close"
    /\ closed' = TRUE
    /\ cpc' = "log"
    /\ UNCHANGED <<recVars, repVars, tool, maxRoutines, ch, workers, files, loaded, rules, fileIdx,
                   lineIdx, fcount, count, wg, outputs, routed, reported>>

\* log.Printf("Success: Processed %d records(s) ...", count, ...)
LogSuccessSelect ==
    /\ tool = "select" /\ cpc = "log"
    /\ reported' = count
    /\ cpc' = "done"
    /\ UNCHANGED <<recVars, repVars, tool, maxRoutines, ch, workers, files, loaded, rules, fileIdx,
                   lineIdx, fcount, count, wg, outputs, closed, routed>>

\* write without the append of the newline.
writeWithoutNewline(outs, json, output) ==
    [outs EXCEPT ![output] = Append(@, <<json>>)]

\* JSONSelect.write: the line and one newline, in one Write on the output's
\* file; a Write on a closed file fails, which is fatal.
write(outs, json, output) ==
    [outs EXCEPT ![output] = Append(@, <<json, "\n">>)]

\* startRoutine, first part: handleJSON parses the line, evaluates the rules
\* (which rewrites their Keys) and writes the line to the chosen output.
HandleJSON(w) ==
    /\ tool = "select" /\ Alive
    /\ workers[w].pc = "handle"
    /\ LET r == handleJSON(workers[w].input, rules) IN
         IF r.fatal \/ closed
         THEN /\ cpc' = "fatal"
              /\ UNCHANGED <<workers, rules, outputs, routed>>
         ELSE /\ rules' = r.rules
              /\ outputs' = write(outputs, workers[w].input, r.output)
              /\ routed' = [routed EXCEPT ![w] = r.output]
              /\ workers' = [workers EXCEPT ![w].pc = "done"]
              /\ cpc' = cpc
    /\ UNCHANGED <<recVars, repVars, tool, maxRoutines, ch, files, loaded, fileIdx, lineIdx, fcount,
                   count, wg, closed, reported>>

\* startRoutine: wg.Done()
WaitGroupDone(w) ==
    /\ tool = "select" /\ Alive
    /\ workers[w].pc = "done"
    /\ wg' = wg - 1
    /\ workers' = [workers EXCEPT ![w].pc = "release"]
    /\ UNCHANGED <<recVars, repVars, tool, maxRoutines, cpc, ch, files, loaded, rules, fileIdx, lineIdx,
                   fcount, count, outputs, closed, routed, reported>>

\* startRoutine: <-ch
ReleaseSlotSelect(w) ==
    /\ tool = "select" /\ Alive
    /\ workers[w].pc = "release"
    /\ ch' = ch - 1
    /\ workers' = [workers EXCEPT ![w].pc = "exit"]
    /\ UNCHANGED <<recVars, repVars, tool, maxRoutines, cpc, reported, selVars>>

NextSelect ==
    \/ CreateOutputFiles
    \/ SkipEmptyLine
    \/ DispatchLine
    \/ EndOfFile
    \/ EndOfWalk
    \/ WaitGroupWait
    \/ CloseOutputFiles
    \/ LogSuccessSelect
    \/ \E w \in 1..Len(workers) : HandleJSON(w)
    \/ \E w \in 1..Len(workers) : WaitGroupDone(w)
    \/ \E w \in 1..Len(workers) : ReleaseSlotSelect(w)

SpecSelect == InitSelect /\ [][NextSelect]_vars

(***************************************************************************)
(* json_replace: the run                                                   *)
(***************************************************************************)
\* NewJSONReplace and the state Exec starts from.
InitReplace ==
    /\ tool = "replace"
    /\ maxRoutines \in 1..MaxRoutines
    /\ cpc = "init"
    /\ ch = 0
    /\ workers = <<>>
    /\ reported = -1
    /\ rfiles \in SeqsUpTo(ReplaceRecords, MaxFiles)
    /\ lineByLine = FALSE
    /\ rrules = <<>>
    /\ rule \in TimestampRules
    /\ replay = [time |-> 0, index |-> 0, records |-> 0]
    /\ startTime = 0
    /\ assignCounter = 0
    /\ processCounter = 0
    /\ lock = 0
    /\ walkIdx = 1
    /\ results = [f \in 1..Len(rfiles) |-> NotWritten]
    /\ advances = <<>>
    /\ SelectIdle
    /\ RecordIdle

\* Exec: r.replay.time = float64(now) when StartMs is 0, float64(StartMs)
\* otherwise; r.replay.records = r.MaxRecords.
InitReplay ==
    /\ tool = "replace" /\ cpc = "init"
    /\ LET t == IF rule.StartMs = 0 THEN NowMs ELSE rule.StartMs IN
         /\ replay' = [time |-> t * rule.MaxRecords, index |-> 0,
                       records |-> rule.MaxRecords]
         /\ startTime' = t
    /\ cpc' = "walk"
    /\ UNCHANGED <<recVars, selVars, tool, maxRoutines, ch, workers, reported, rfiles, lineByLine,
                   rrules, rule,
                   assignCounter, processCounter, lock, walkIdx, results, advances>>

\* A walk that does not count the file it assigns.
assignIncrementMissing(n) == n

\* The counter after replace.sync.assignCounter++.
assignIncrement(n) == n + 1

\* The walk finds a file: replace.sync.assignCounter++
AssignFile ==
    /\ tool = "replace" /\ cpc = "walk" /\ Alive
    /\ walkIdx <= Len(rfiles)
    /\ assignCounter' = assignIncrement(assignCounter)
    /\ cpc' = "send"
    /\ UNCHANGED <<recVars, selVars, tool, maxRoutines, ch, workers, reported, rfiles, lineByLine,
                   rrules, rule,
                   replay, startTime, processCounter, lock, walkIdx, results,
                   advances>>

\* The rule file holds no timestamp rule.
NoTimestampRule == [Type |-> "none"]

\* The pieces of a file: bytes.Split(input, "\n").  A file is modelled by its
\* pieces, each one by what its bytes decode to (Empty for no bytes, Invalid
\* for bytes that are no JSON).  The whole file decodes to its only piece,
\* or, when it has several, to the one that is not empty (the newlines are
\* white space around it); a file of newlines only, or of several values,
\* is no JSON.
WholeOf(pieces) ==
    LET full == {i \in 1..Len(pieces) : pieces[i] # Empty} IN
    IF Len(pieces) = 1 THEN pieces[1]
    ELSE IF Cardinality(full) = 1 THEN pieces[CHOOSE i \in full : TRUE]
    ELSE Invalid

\* What handleFile passes to handleJSON, in order: every piece of the file
\* in line-by-line mode, the whole file otherwise.
inputsOf(pieces) == IF lineByLine THEN pieces ELSE <<WholeOf(pieces)>>

\* handleJSON that stops at the first rule that changed the record.
RECURSIVE replaceHandleJSONUntilChanged(_, _, _)
replaceHandleJSONUntilChanged(m, rs, i) ==
    IF i > Len(rs) THEN [result |-> m, fatal |-> FALSE]
    ELSE IF rs[i].Type \in {"per-field", "global"}
         THEN LET m2 == replaceProcess(<<>>, m, rs[i]) IN
              IF m2 # m THEN [result |-> m2, fatal |-> FALSE]
              ELSE replaceHandleJSONUntilChanged(m2, rs, i + 1)
         ELSE [result |-> m, fatal |-> TRUE]

\* JSONReplace.handleJSON, the loop over replace.rules from the i-th rule
\* on: every per-field and global rule is applied to the record as the
\* rules before it left it; an unknown type is fatal.
RECURSIVE replaceHandleJSONFrom(_, _, _)
replaceHandleJSONFrom(m, rs, i) ==
    IF i > Len(rs) THEN [result |-> m, fatal |-> FALSE]
    ELSE IF rs[i].Type \in {"per-field", "global"}
         THEN replaceHandleJSONFrom(replaceProcess(<<>>, m, rs[i]), rs, i + 1)
         ELSE [result |-> m, fatal |-> TRUE]

\* JSONReplace.handleJSON: nothing for an empty input, an error for an input
\* that is no JSON, the record after the rules otherwise.
replaceHandleJSON(input, rs) ==
    IF input = Empty THEN [result |-> Empty, err |-> FALSE, fatal |-> FALSE]
    ELSE IF input = Invalid THEN [result |-> Empty, err |-> TRUE, fatal |-> FALSE]
    ELSE LET r == replaceHandleJSONFrom(input, rs, 1) IN
         [result |-> r.result, err |-> FALSE, fatal |-> r.fatal]

\* IsSortedByPosition for the rules of json_replace: sort.Slice by Order.
IsSortedByOrder(rs) ==
    \A i \in 1..(Len(rs) - 1) : rs[i].Order <= rs[i + 1].Order

\* handleFile up to the rules: the file is read; with a timestamp rule it is
\* decoded and the rule finds the maps it will stamp.
NewRoutine(f) ==
    IF rule.Type = "timestamp"
    THEN LET targets == replayTargets(rfiles[f], rule) IN
         [file |-> f, doc |-> rfiles[f], targets |-> targets, cur |-> 0, tmp |-> 0,
          pc |-> IF targets = <<>> THEN "count" ELSE "stamp"]
    ELSE [file |-> f, doc |-> NotWritten, inputs |-> inputsOf(rfiles[f]), result |-> <<>>,
          tmp |-> 0, pc |-> "json"]

\* ch <- 1; go replace.startRoutine(path, ch)
StartRoutine ==
    /\ tool = "replace" /\ cpc = "send" /\ Alive
    /\ SlotFree
    /\ ch' = ch + 1
    /\ workers' = Append(workers, NewRoutine(walkIdx))
    /\ walkIdx' = walkIdx + 1
    /\ cpc' = "walk"
    /\ UNCHANGED <<recVars, selVars, tool, maxRoutines, reported, rfiles, lineByLine, rrules, rule, replay,
                   startTime, assignCounter, processCounter, lock, results, advances>>

\* filepath.WalkDir returns.
EndOfWalkReplace ==
    /\ tool = "replace" /\ cpc = "walk"
    /\ walkIdx > Len(rfiles)
    /\ cpc' = "spin"
    /\ UNCHANGED <<recVars, selVars, repVars, tool, maxRoutines, ch, workers, reported>>

\* A read that can return a value processCounter has not had yet.
ReadsOfAnyValue == 0..assignCounter

\* The values a read of processCounter made without the lock can return:
\* the ones written so far.
UnlockedReads == 0..processCounter

\* for replace.sync.assignCounter != replace.sync.processCounter {}: the
\* loop ends when a read of processCounter returns assignCounter.
SpinExit ==
    /\ tool = "replace" /\ cpc = "spin"
    /\ \E seen \in UnlockedReads : seen = assignCounter
    /\ cpc' = "log"
    /\ UNCHANGED <<recVars, selVars, repVars, tool, maxRoutines, ch, workers, reported>>

\* log.Printf("Success: Processed %d file(s) ...", processCounter, ...)
LogSuccessReplace ==
    /\ tool = "replace" /\ cpc = "log"
    /\ reported' = processCounter
    /\ cpc' = "done"
    /\ UNCHANGED <<recVars, selVars, repVars, tool, maxRoutines, ch, workers>>

\* Lock() that returns at once, whoever holds the lock.
LockAlwaysFree == TRUE

\* replace.sync.lock.Lock() can return: nobody holds the lock.
LockFree == lock = 0

\* Worker w after a map was stamped: on to the next map, or, after the last
\* one, past the rules.
AfterStamp(w, doc) ==
    IF Len(workers[w].targets) > 1
    THEN [workers[w] EXCEPT !.targets = Tail(@), !.doc = doc, !.pc = "stamp"]
    ELSE [workers[w] EXCEPT !.targets = <<>>, !.doc = doc, !.pc = "count"]

\* processReplayMap, first half: Lock(), then
\* cur := r.replay.time + calculateIncrement(r.replay.index, r.Duration,
\* r.replay.records).
ReplayLock(w) ==
    /\ tool = "replace" /\ Alive
    /\ workers[w].pc = "stamp"
    /\ LockFree
    /\ lock' = w
    /\ workers' = [workers EXCEPT
                     ![w].cur = replay.time + calculateIncrement(
                                    replay.index, rule.Duration, replay.records),
                     ![w].pc = "stamped"]
    /\ UNCHANGED <<recVars, selVars, tool, maxRoutines, cpc, ch, reported, rfiles, lineByLine, rrules, rule,
                   replay, startTime, assignCounter, processCounter, walkIdx,
                   results, advances>>

\* processReplayMap, second half: m[k] = int64(cur); r.replay.time = cur;
\* r.replay.index++; the deferred Unlock().  After the last map of the
\* record, handleFile writes the result to the target file.
ReplayStore(w) ==
    /\ tool = "replace" /\ Alive
    /\ workers[w].pc = "stamped"
    /\ LET cur     == workers[w].cur
           k       == Cut(rule.FieldName).before
           emitted == Int64(cur, replay.records)
           doc     == SetAt(workers[w].doc, Head(workers[w].targets), k, Num(emitted))
           next    == AfterStamp(w, doc)
       IN  /\ replay' = [replay EXCEPT !.time = cur, !.index = @ + 1]
           /\ advances' = Append(advances, [index |-> replay.index + 1, time |-> cur,
                                           emitted |-> emitted, worker |-> w])
           /\ workers' = [workers EXCEPT ![w] = next]
           /\ results' = IF next.pc = "count"
                         THEN [results EXCEPT ![workers[w].file] = doc]
                         ELSE results
    /\ lock' = 0
    /\ UNCHANGED <<recVars, selVars, tool, maxRoutines, cpc, ch, reported, rfiles, lineByLine, rrules, rule,
                   startTime, assignCounter, processCounter, walkIdx>>

\* startRoutine: handleFile has returned (a record without a map to stamp is
\* written as it is); Lock(); the value is received from ch and
\* processCounter is read.
CounterLock(w) ==
    /\ tool = "replace" /\ Alive
    /\ workers[w].pc = "count"
    /\ LockFree
    /\ lock' = w
    /\ ch' = ch - 1
    /\ results' = [results EXCEPT ![workers[w].file] = workers[w].doc]
    /\ workers' = [workers EXCEPT ![w].tmp = processCounter, ![w].pc = "counted"]
    /\ UNCHANGED <<recVars, selVars, tool, maxRoutines, cpc, reported, rfiles, lineByLine, rrules, rule, replay,
                   startTime, assignCounter, processCounter, walkIdx, advances>>

\* startRoutine: processCounter is stored; the deferred Unlock().
CounterStore(w) ==
    /\ tool = "replace" /\ Alive
    /\ workers[w].pc = "counted"
    /\ processCounter' = workers[w].tmp + 1
    /\ lock' = 0
    /\ workers' = [workers EXCEPT ![w].pc = "exit"]
    /\ UNCHANGED <<recVars, selVars, tool, maxRoutines, cpc, ch, reported, rfiles, lineByLine, rrules, rule,
                   replay, startTime, assignCounter, walkIdx, results, advances>>

NextReplace ==
    \/ InitReplay
    \/ AssignFile
    \/ StartRoutine
    \/ EndOfWalkReplace
    \/ SpinExit
    \/ LogSuccessReplace
    \/ \E w \in 1..Len(workers) : ReplayLock(w)
    \/ \E w \in 1..Len(workers) : ReplayStore(w)
    \/ \E w \in 1..Len(workers) : CounterLock(w)
    \/ \E w \in 1..Len(workers) : CounterStore(w)

SpecReplace == InitReplace /\ [][NextReplace]_vars

(***************************************************************************)
(* json_replace: one rule applied to one record                            *)
(***************************************************************************)
InitRecord ==
    /\ tool = "record"
    /\ record \in Records
    /\ recRule \in ReplaceRules
    /\ recResult = NotApplied
    /\ recRules = <<>>
    /\ evValue = NotApplied /\ evRule = <<>> /\ evResult = NotApplied
    /\ flatInput = NotApplied /\ flatTodo = {} /\ flatPc = "none"
    /\ flatResult = NotApplied
    /\ RunIdle /\ SelectIdle /\ ReplaceIdle

\* handleJSON, for one rule of type per-field or global:
\* replace.process("", m, *r)
ApplyRule ==
    /\ tool = "record"
    /\ recResult = NotApplied
    /\ recResult' = replaceProcess(<<>>, record, recRule)
    /\ UNCHANGED <<tool, maxRoutines, cpc, ch, workers, reported, selVars, repVars,
                   record, recRule, recRules, evValue, evRule, evResult,
                   flatInput, flatTodo, flatPc, flatResult>>

NextRecord == ApplyRule

SpecRecord == InitRecord /\ [][NextRecord]_vars

\* Either tool.
Init == InitSelect \/ InitReplace
Next == NextSelect \/ NextReplace
Spec == Init /\ [][Next]_vars

(***************************************************************************)
(* Properties of the runs                                                  *)
(***************************************************************************)
Range(q) == {q[i] : i \in 1..Len(q)}

\* The rules of the loaded list that a record satisfies, every condition
\* being evaluated with the Key it was loaded with.
SatisfiedAsLoaded(v) == {i \in 1..Len(loaded) : processRule(v, loaded[i]).res}

\* C1: every record is routed to the output of the satisfied rule with the
\* lowest position, and to "default" when no rule of the rule list is
\* satisfied.
C1_RoutedToLowestSatisfiedRule ==
    tool = "select" =>
        \A w \in 1..Len(workers) :
            routed[w] # "" =>
                LET sat == SatisfiedAsLoaded(workers[w].input) IN
                IF sat = {} THEN routed[w] = DefaultOutput
                ELSE \E i \in sat :
                        /\ routed[w] = loaded[i].Output
                        /\ \A j \in sat : loaded[i].Position <= loaded[j].Position

\* The positions <<file, line>> of the non-empty lines of the input.
NonEmptyLines ==
    {p \in UNION {{<<f, l>> : l \in 1..Len(files[f])} : f \in 1..Len(files)} :
        files[p[1]][p[2]] # Empty}

\* The number of chunks written, over all output files.
TotalWritten ==
    LET RECURSIVE Sum(_)
        Sum(os) == IF os = {} THEN 0
                   ELSE LET o == CHOOSE x \in os : TRUE IN Len(outputs[o]) + Sum(os \ {o})
    IN  Sum(DOMAIN outputs)

\* The number of chunks equal to chunk, over all output files.
TimesWritten(chunk) ==
    LET RECURSIVE Sum(_)
        Sum(os) == IF os = {} THEN 0
                   ELSE LET o == CHOOSE x \in os : TRUE IN
                        Cardinality({i \in 1..Len(outputs[o]) : outputs[o][i] = chunk})
                            + Sum(os \ {o})
    IN  Sum(DOMAIN outputs)

HasWritten(w) == workers[w].pc \in {"done", "release", "exit"}

C3_CompletedAtMostAssigned ==
    tool = "replace" =>
        /\ processCounter <= assignCounter
        /\ cpc \in {"log", "done"} =>
              /\ processCounter = assignCounter
              /\ assignCounter = Len(rfiles)
        /\ reported # -1 => reported = Len(rfiles)

\* A run of three files that reported success.
C3_Witness ==
    tool = "replace" /\ cpc = "done" /\ reported = 3

\* The workers that were started and have not yet received from ch.
HoldingSlot ==
    {w \in 1..Len(workers) :
        IF tool = "select" THEN workers[w].pc \in {"handle", "done", "release"}
        ELSE workers[w].pc \in {"stamp", "stamped", "count"}}

\* C4: in both tools, at most maxRoutines workers have been started and
\* have not yet released their slot.
C4_AtMostMaxRoutinesWorkers ==
    Cardinality(HoldingSlot) <= maxRoutines

\* The walk of json_replace waits for a slot while maxRoutines workers run.
C4_Witness ==
    /\ tool = "replace" /\ cpc = "send"
    /\ maxRoutines = MaxRoutines
    /\ Cardinality(HoldingSlot) = maxRoutines

\* The sum of the first n increments.
RECURSIVE SumOfIncrements(_)
SumOfIncrements(n) ==
    IF n = 0 THEN 0
    ELSE SumOfIncrements(n - 1) + calculateIncrement(n - 1, rule.Duration, rule.MaxRecords)

\* C5: after n advances of the replay state the index is n and the time is
\* the start time plus the n increments; every advance raises the index by
\* one and never lowers the time.
C5_ReplayAdvancesAreAtomic ==
    (tool = "replace" /\ cpc # "init") =>
        /\ replay.index = Len(advances)
        /\ replay.time = startTime * rule.MaxRecords + SumOfIncrements(Len(advances))
        /\ \A i \in 1..Len(advances) :
              /\ advances[i].index = i
              /\ advances[i].time >=
                    (IF i = 1 THEN startTime * rule.MaxRecords ELSE advances[i - 1].time)

\* One worker is inside the update while another one waits for the lock,
\* after an advance by a third party or by one of them.
C5_Witness ==
    /\ tool = "replace" /\ Len(advances) >= 1
    /\ \E w1, w2 \in 1..Len(workers) :
          workers[w1].pc = "stamped" /\ workers[w2].pc = "stamp"

\* C6: consecutive emitted timestamps differ by duration / max-records, up
\* to the rounding to an integer; with duration 1000 and max-records 10 they
\* differ by 100 and so increase strictly.
C6_EvenlySpacedTimestamps ==
    tool = "replace" =>
        \A i \in 2..Len(advances) :
            LET d == advances[i].emitted - advances[i - 1].emitted IN
            /\ d * rule.MaxRecords > rule.Duration - rule.MaxRecords
            /\ d * rule.MaxRecords < rule.Duration + rule.MaxRecords
            /\ (rule.Duration = 1000 /\ rule.MaxRecords = 10) => d = 100

\* Three advances of the rule with duration 1000 and max-records 10.
C6_Witness ==
    /\ tool = "replace" /\ Len(advances) >= 3
    /\ rule.Duration = 1000 /\ rule.MaxRecords = 10

\* The record of file f with its maps stamped by the advances first,
\* first + 1, ... of the rule.
RECURSIVE StampedFrom(_, _, _)
StampedFrom(doc, targets, first) ==
    IF targets = <<>> THEN doc
    ELSE StampedFrom(
            SetAt(doc, Head(targets), Cut(rule.FieldName).before,
                  Num(Int64(startTime * rule.MaxRecords + SumOfIncrements(first),
                            rule.MaxRecords))),
            Tail(targets), first + 1)

\* The number of advances the files before f need.
RECURSIVE AdvancesBefore(_)
AdvancesBefore(f) ==
    IF f = 1 THEN 0
    ELSE AdvancesBefore(f - 1) + Len(replayTargets(rfiles[f - 1], rule))

\* The output of file f when the files are processed in walk order.
InWalkOrder(f) ==
    StampedFrom(rfiles[f], replayTargets(rfiles[f], rule), AdvancesBefore(f) + 1)

\* C7: with start-ms set, every file's output is the same on every run, the
\* one the expected files hold.
C7_OutputIndependentOfSchedule ==
    (tool = "replace" /\ cpc = "done" /\ rule.StartMs # 0) =>
        \A f \in 1..Len(rfiles) : results[f] = InWalkOrder(f)

\* The segments of a dotted key.
RECURSIVE Segments(_)
Segments(key) ==
    LET cut == Cut(key) IN
    IF cut.found THEN <<cut.before>> \o Segments(cut.after) ELSE <<key>>

\* The value reached from v by following the segments through objects.
Absent == [t |-> "absent"]
RECURSIVE Follow(_, _)
Follow(v, segs) ==
    IF segs = <<>> THEN v
    ELSE IF IsObj(v) /\ Head(segs) \in DOMAIN v.m THEN Follow(v.m[Head(segs)], Tail(segs))
    ELSE Absent

\* The condition c, as written in the rule file, holds of the record v:
\* following its key leads to a string that is one of its values.
LeadsToValue(v, c) ==
    LET leaf == Follow(v, Segments(c.Key)) IN
    IsStr(leaf) /\ leaf.s \in Range(c.Values)

\* C10: a match condition with a dotted key, not excluded, is true of a
\* record of nested objects iff following the key segment by segment leads
\* to a string that is one of the values.  The first rule of the list has
\* one such condition, so a record is routed to its output iff the
\* condition was found true.
C10_MatchFollowsThePath ==
    (tool = "select" /\ Len(loaded) > 0) =>
        LET c == loaded[1].Conditions[1] IN
        \A w \in 1..Len(workers) :
            routed[w] # "" =>
                ((routed[w] = loaded[1].Output) <=> LeadsToValue(workers[w].input, c))

(***************************************************************************)
(* Properties of one rule applied to one record                            *)
(***************************************************************************)
\* v with every string node, at any depth, replaced by itself with every
\* occurrence of old replaced by new.
RECURSIVE EveryStringReplaced(_, _, _)
EveryStringReplaced(v, old, new) ==
    IF IsStr(v) THEN Str(ReplaceAll(v.s, old, new))
    ELSE IF IsObj(v) THEN Obj([k \in DOMAIN v.m |-> EveryStringReplaced(v.m[k], old, new)])
    ELSE IF IsArr(v) THEN Arr([i \in 1..Len(v.a) |-> EveryStringReplaced(v.a[i], old, new)])
    ELSE v

\* C8: after a global rule every string node of the record, object member
\* or array element at any depth, is its previous value with every
\* occurrence of original replaced by replacement (stated for the records
\* that are objects).
C8_GlobalReplacesEveryString ==
    (tool = "record" /\ recResult # NotApplied /\ recRule.Type = "global"
        /\ IsObj(record)) =>
        recResult = EveryStringReplaced(record, recRule.Original, recRule.Replacement)

\* w is v except, at most, for the strings that the segments lead to; below
\* an array the elements are reached with the same segments.  NoPath says
\* that no segments lead into v.
NoPath == << <<Dot>> >>
RECURSIVE SameOffThePath(_, _, _)
SameOffThePath(v, w, segs) ==
    IF segs = NoPath THEN w = v
    ELSE IF IsStr(v) THEN IF segs = <<>> THEN IsStr(w) ELSE w = v
    ELSE IF IsObj(v)
    THEN /\ IsObj(w) /\ DOMAIN w.m = DOMAIN v.m
         /\ \A k \in DOMAIN v.m :
               SameOffThePath(v.m[k], w.m[k],
                              IF segs # <<>> /\ k = Head(segs) THEN Tail(segs) ELSE NoPath)
    ELSE IF IsArr(v)
    THEN /\ IsArr(w) /\ Len(w.a) = Len(v.a)
         /\ \A i \in 1..Len(v.a) :
               SameOffThePath(v.a[i], w.a[i], IF segs = <<>> THEN NoPath ELSE segs)
    ELSE w = v

\* C9: a per-field rule changes no node but the string that its field path
\* leads to; when the path leads to nothing, or to a value that is not a
\* string, the record is unchanged.
C9_PerFieldChangesTheTargetOnly ==
    (tool = "record" /\ recResult # NotApplied /\ recRule.Type = "per-field") =>
        SameOffThePath(record, recResult, Segments(recRule.FieldName))

(***************************************************************************)
(* json_select: one rule evaluated on one value                            *)
(***************************************************************************)
\* The strings and the number at the leaves of the values.
EvalLeaves == {Str(<<"x">>), Str(<<"y">>), Str(<<"x", "y">>), Num(1)}

\* {}, and the objects {"b": leaf}.
ObjectsOfB(S) == {Obj(<<>>)} \cup {Obj([k \in {KeyB} |-> l]) : l \in S}

\* What the key a, or the top level, can hold.
EvalInner ==
    EvalLeaves \cup ObjectsOfB(EvalLeaves) \cup ArraysOver(EvalLeaves)
        \cup ArraysOver(ObjectsOfB(EvalLeaves))

\* {"a": inner}, {"b": leaf}, {} and the arrays of leaves.
EvalValues ==
    {Obj([k \in {KeyA} |-> v]) : v \in EvalInner}
        \cup ObjectsOfB(EvalLeaves) \cup ArraysOver(EvalLeaves)

\* "bogus" is a type that test does not know.  The keys are the ones of the
\* rule file and the ones an evaluation can leave in a condition.
EvalTypes == {"match", "prefix", "suffix", "exist", "regex", "bogus"}

EvalConditions ==
    {[Type |-> ty, Key |-> key, Values |-> vs, Exclude |-> ex] :
        ty \in EvalTypes, key \in {KeyA, KeyAB, KeyB, <<>>},
        vs \in {<<>>, << <<"y">> >>, << <<"x">>, <<"y">> >>},
        ex \in BOOLEAN}

\* The conditions of the rules that have several of them.
RuleConditions ==
    {[Type |-> "match", Key |-> KeyA, Values |-> << <<"x">> >>, Exclude |-> FALSE],
     [Type |-> "match", Key |-> KeyA, Values |-> << <<"x">> >>, Exclude |-> TRUE],
     [Type |-> "prefix", Key |-> KeyAB, Values |-> << <<"x">> >>, Exclude |-> FALSE],
     [Type |-> "exist", Key |-> KeyAB, Values |-> << <<"y">> >>, Exclude |-> FALSE],
     [Type |-> "bogus", Key |-> KeyA, Values |-> << <<"x">> >>, Exclude |-> FALSE]}

\* Most conditions of a rule.
MaxConditions == 2

EvalRules ==
    {[Position |-> 1, Output |-> "out", Conditions |-> cs] :
        cs \in {<<c>> : c \in EvalConditions}
                 \cup SeqsUpTo(RuleConditions, MaxConditions)}

InitEval ==
    /\ tool = "eval"
    /\ evValue \in EvalValues
    /\ evRule \in EvalRules
    /\ evResult = NotApplied
    /\ record = NotApplied /\ recRule = <<>> /\ recResult = NotApplied
    /\ recRules = <<>>
    /\ flatInput = NotApplied /\ flatTodo = {} /\ flatPc = "none"
    /\ flatResult = NotApplied
    /\ RunIdle /\ SelectIdle /\ ReplaceIdle

\* handleJSON: s.processRule(v, *r) on a rule as loaded.
EvalRule ==
    /\ tool = "eval"
    /\ evResult = NotApplied
    /\ evResult' = processRule(evValue, evRule)
    /\ UNCHANGED <<tool, maxRoutines, cpc, ch, workers, reported, selVars, repVars,
                   record, recRule, recResult, recRules, evValue, evRule,
                   flatInput, flatTodo, flatPc, flatResult>>

NextEval == EvalRule

SpecEval == InitEval /\ [][NextEval]_vars

\* processRule has returned (log.Fatal has not ended the process) for a
\* rule of one condition.
OneConditionEvaluated ==
    /\ tool = "eval" /\ evResult # NotApplied
    /\ Len(evRule.Conditions) = 1
    /\ ~evResult.fatal

\* v is {"a": [objects]}.
IsArrayOfObjectsUnderA(v) ==
    /\ IsObj(v) /\ KeyA \in DOMAIN v.m /\ IsArr(v.m[KeyA])
    /\ \A i \in 1..Len(v.m[KeyA].a) : IsObj(v.m[KeyA].a[i])

\* C11: a match condition with key a.b, not excluded, is true of
\* {"a": [objects]} when following b in some element of the array leads to
\* a string that is one of the values.
C11_ArrayMatchesAnyElement ==
    (OneConditionEvaluated /\ IsArrayOfObjectsUnderA(evValue)) =>
        LET c == evRule.Conditions[1] IN
        (c.Type = "match" /\ ~c.Exclude /\ c.Key = KeyAB) =>
            ((\E i \in 1..Len(evValue.m[KeyA].a) :
                 LeadsToValue(evValue.m[KeyA].a[i], [c EXCEPT !.Key = KeyB]))
                => evResult.res)

\* C12: the condition with Exclude inverted is satisfied exactly when the
\* condition is not, for every value, type, key and list of values.
C12_ExcludeInvertsTheCondition ==
    OneConditionEvaluated =>
        LET c       == evRule.Conditions[1]
            flipped == [c EXCEPT !.Exclude = ~c.Exclude]
        IN  evResult.res = ~processCondition(evValue, flipped).res

\* An excluded condition whose key is absent from the value is satisfied.
C12_Witness ==
    /\ OneConditionEvaluated
    /\ evRule.Conditions[1].Exclude
    /\ IsObj(evValue) /\ KeyA \notin DOMAIN evValue.m
    /\ evResult.res

\* The conditions in the opposite order.
Reversed(q) == [i \in 1..Len(q) |-> q[Len(q) + 1 - i]]

\* C13: processRule returns true iff every condition of the rule is true of
\* the value, and so returns the same for the conditions in the opposite
\* order; a rule without conditions is satisfied.
C13_RuleIsTheConjunction ==
    (tool = "eval" /\ evResult # NotApplied /\ ~evResult.fatal) =>
        LET cs == evRule.Conditions IN
        /\ evResult.res <=>
              \A i \in 1..Len(cs) : processCondition(evValue, cs[i]).res
        /\ LET back == processRule(evValue, [evRule EXCEPT !.Conditions = Reversed(cs)])
           IN  ~back.fatal => back.res = evResult.res
        /\ cs = <<>> => evResult.res

\* A rule of two conditions, the first true and the second false.
C13_Witness ==
    /\ tool = "eval" /\ evResult # NotApplied /\ ~evResult.fatal
    /\ Len(evRule.Conditions) = 2
    /\ processCondition(evValue, evRule.Conditions[1]).res
    /\ ~processCondition(evValue, evRule.Conditions[2]).res
    /\ ~evResult.res

\* C14: an exist condition, not excluded, whose key leads to a string is
\* true whatever its list of values holds, the empty list included.
C14_ExistIgnoresTheValues ==
    OneConditionEvaluated =>
        LET c == evRule.Conditions[1] IN
        (c.Type = "exist" /\ ~c.Exclude /\ IsStr(Follow(evValue, Segments(c.Key))))
            => evResult.res

(***************************************************************************)
(* json_replace: the run with per-field and global rules, in line-by-line  *)
(* mode or not                                                             *)
(***************************************************************************)
\* {"a":"x"} and {"a":"y"}
RecLx == Obj([k \in {KeyA} |-> Str(<<"x">>)])
RecLy == Obj([k \in {KeyA} |-> Str(<<"y">>)])

Pieces == {Empty, Invalid, RecLx, RecLy}

\* Most pieces of a file.
MaxLines == 2

\* The files: one to MaxLines pieces.
PieceFiles == SeqsUpTo(Pieces, MaxLines) \ {<<>>}

\* The input trees: no file, one file, or one file with a file of one line
\* before or after it in walk order.
PieceTrees ==
    {<<>>} \cup {<<f>> : f \in PieceFiles}
        \cup {<<f, <<p>> >> : f \in PieceFiles, p \in {RecLx, Invalid}}
        \cup {<< <<p>>, f>> : f \in PieceFiles, p \in {RecLx, Invalid}}

\* {"order":1,"type":"global","original":"x","replacement":"z"} and a rule
\* of a type that handleJSON does not know.
RuleGlobal  == [Order |-> 1, Type |-> "global", FieldName |-> <<>>,
                Original |-> <<"x">>, Replacement |-> <<"z">>]
RuleUnknown == [Order |-> 2, Type |-> "bogus", FieldName |-> KeyA,
                Original |-> <<"x">>, Replacement |-> <<"z">>]

RunRuleFiles == {<<>>, <<RuleGlobal>>, <<RuleGlobal, RuleUnknown>>,
                 <<RuleUnknown, RuleGlobal>>}

\* NewJSONReplace (the rules are sorted by order) and Exec after the replay
\* state of the rules was initialised.
InitReplaceRules ==
    /\ tool = "replace"
    /\ maxRoutines \in 1..MaxRoutines
    /\ cpc = "walk"
    /\ ch = 0
    /\ workers = <<>>
    /\ reported = -1
    /\ rfiles \in PieceTrees
    /\ lineByLine \in BOOLEAN
    /\ \E rf \in RunRuleFiles :
         rrules \in {rs \in RunRuleFiles :
                        /\ Len(rs) = Len(rf)
                        /\ {rs[i] : i \in 1..Len(rs)} = {rf[i] : i \in 1..Len(rf)}
                        /\ IsSortedByOrder(rs)}
    /\ rule = NoTimestampRule
    /\ replay = <<>>
    /\ startTime = 0
    /\ assignCounter = 0
    /\ processCounter = 0
    /\ lock = 0
    /\ walkIdx = 1
    /\ results = [f \in 1..Len(rfiles) |-> NotWritten]
    /\ advances = <<>>
    /\ SelectIdle
    /\ RecordIdle

\* The content of a file written in line-by-line mode: its lines, each one
\* with its newline.
LinesFile(result) == [t |-> "lines", lines |-> result]

\* The result with the line r put in front of it.
prependLine(result, r) == << <<r, "\n">> >> \o result

\* handleFile, line-by-line mode: r = append(r, '\n');
\* result = append(result, r...)
appendLine(result, r) == Append(result, <<r, "\n">>)

\* handleFile: handleJSON on the next input (a line, or the whole file); an
\* error and an unknown rule type are fatal.  After the last input the
\* result is written to the target file.
HandleInput(w) ==
    /\ tool = "replace" /\ Alive
    /\ workers[w].pc = "json"
    /\ LET wk   == workers[w]
           r    == replaceHandleJSON(Head(wk.inputs), rrules)
           rest == Tail(wk.inputs)
           res  == IF lineByLine THEN appendLine(wk.result, r.result) ELSE r.result
           out  == IF lineByLine THEN LinesFile(res) ELSE res
       IN  IF r.err \/ r.fatal
           THEN /\ cpc' = "fatal"
                /\ UNCHANGED <<workers, results>>
           ELSE /\ cpc' = cpc
                /\ workers' = [workers EXCEPT
                                 ![w].inputs = rest,
                                 ![w].result = res,
                                 ![w].doc = IF rest = <<>> THEN out ELSE wk.doc,
                                 ![w].pc = IF rest = <<>> THEN "count" ELSE "json"]
                /\ results' = IF rest = <<>> THEN [results EXCEPT ![wk.file] = out]
                              ELSE results
    /\ UNCHANGED <<recVars, selVars, tool, maxRoutines, ch, reported, rfiles, lineByLine,
                   rrules, rule, replay, startTime, assignCounter, processCounter,
                   lock, walkIdx, advances>>

NextReplaceRules ==
    \/ AssignFile
    \/ StartRoutine
    \/ EndOfWalkReplace
    \/ SpinExit
    \/ LogSuccessReplace
    \/ \E w \in 1..Len(workers) : HandleInput(w)
    \/ \E w \in 1..Len(workers) : CounterLock(w)
    \/ \E w \in 1..Len(workers) : CounterStore(w)

SpecReplaceRules == InitReplaceRules /\ [][NextReplaceRules]_vars

(***************************************************************************)
(* json_select: the run on inputs and rule files with faults               *)
(***************************************************************************)
\* {"position":2,"output":"others","conditions":[{"type":"bogus",
\*   "key":"r","values":["x"],"exclude":false}]}
RuleBogus == [Position |-> 2, Output |-> "others",
              Conditions |-> <<[Type |-> "bogus", Key |-> KeyR,
                                Values |-> << <<"x">> >>, Exclude |-> FALSE]>>]

\* {"a":{"b":{"c":"x"}}}: no key r.
RecNoR == Obj([k \in {<<"a">>} |->
                Obj([k2 \in {<<"b">>} |-> Obj([k3 \in {<<"c">>} |-> Str(<<"x">>)])])])

FaultyRuleFiles == {<<RuleA>>, <<RuleBogus>>, <<RuleA, RuleBogus>>, <<RuleBogus, RuleA>>}

FaultyTrees ==
    {SplitFiles(st, <<>>) :
        st \in {q \in SeqsUpTo({Empty, Invalid, RecX, RecNoR, EOF}, MaxUnits) :
                    q = <<>> \/ q[Len(q)] = EOF}}

InitSelectFaults ==
    /\ tool = "select"
    /\ maxRoutines \in 1..MaxRoutines
    /\ cpc = "create"
    /\ ch = 0
    /\ workers = <<>>
    /\ files \in FaultyTrees
    /\ \E rf \in FaultyRuleFiles :
         loaded \in {rs \in FaultyRuleFiles :
                        /\ Len(rs) = Len(rf)
                        /\ {rs[i] : i \in 1..Len(rs)} = {rf[i] : i \in 1..Len(rf)}
                        /\ IsSortedByPosition(rs)}
    /\ rules = loaded
    /\ fileIdx = 1
    /\ lineIdx = 1
    /\ fcount = 0
    /\ count = 0
    /\ wg = 0
    /\ outputs = <<>>
    /\ closed = FALSE
    /\ routed = <<>>
    /\ reported = -1
    /\ ReplaceIdle
    /\ RecordIdle

\* Either tool, on inputs and rule files with faults.
InitFaults == InitSelectFaults \/ InitReplaceRules
NextFaults == NextSelect \/ NextReplaceRules
SpecFaults == InitFaults /\ [][NextFaults]_vars

(***************************************************************************)
(* Properties of the runs with faults                                      *)
(***************************************************************************)
KnownConditionTypes == {"match", "prefix", "suffix", "exist", "regex"}
KnownRuleTypes == {"per-field", "global", "timestamp"}

\* The rule list as loaded holds a condition or a rule of an unknown type.
HasUnknownType ==
    IF tool = "select"
    THEN \E i \in 1..Len(loaded) : \E j \in 1..Len(loaded[i].Conditions) :
            loaded[i].Conditions[j].Type \notin KnownConditionTypes
    ELSE \E i \in 1..Len(rrules) : rrules[i].Type \notin KnownRuleTypes

\* The inputs that handleJSON is called with: the non-empty lines of
\* json_select, the pieces or the whole files of json_replace.
UnitsOfRun ==
    IF tool = "select"
    THEN {files[p[1]][p[2]] : p \in NonEmptyLines}
    ELSE UNION {Range(inputsOf(rfiles[f])) : f \in 1..Len(rfiles)}

\* C15: with an unknown type in the rule list, a run never reports success,
\* whatever records it is given (stated for the runs that are given at
\* least one record).
C15_UnknownTypeIsFatal ==
    (HasUnknownType /\ UnitsOfRun \ {Empty, Invalid} # {}) =>
        (cpc # "done" /\ reported = -1)

\* File f of json_replace has an input that is no JSON.
HasInvalidInput(f) == Invalid \in Range(inputsOf(rfiles[f]))

\* C16: a run with a non-empty unit that is no JSON (a non-empty line of
\* json_select or of json_replace in line-by-line mode, a non-empty whole
\* file otherwise) never gets to close its outputs or to report success;
\* nothing is written for that line or that file.
C16_ParseErrorsAreFatal ==
    /\ Invalid \in UnitsOfRun => (cpc \notin {"close", "log", "done"} /\ reported = -1)
    /\ tool = "select" =>
          \A w \in 1..Len(workers) : workers[w].input = Invalid => workers[w].pc = "handle"
    /\ tool = "replace" =>
          \A f \in 1..Len(rfiles) : HasInvalidInput(f) => results[f] = NotWritten

\* The process was ended by log.Fatal in a run with a unit that is no JSON,
\* after another worker had finished.
C16_Witness ==
    /\ cpc = "fatal"
    /\ Invalid \in UnitsOfRun
    /\ ~HasUnknownType
    /\ \E w \in 1..Len(workers) : workers[w].pc = "exit"

\* C16 as the spec states it: a whole file of no bytes is no JSON either.
C16_AnyUnitThatIsNoJSONIsFatal ==
    (\/ Invalid \in UnitsOfRun
     \/ tool = "replace" /\ ~lineByLine /\ Empty \in UnitsOfRun)
        => (cpc # "done" /\ reported = -1)

\* The lines of q that are not empty.
NonEmptyOnly(q) == SelectSeq(q, LAMBDA c : c[1] # Empty)

\* The non-empty pieces of q (the first n of them are looked at), each one
\* as handleJSON leaves it, with its newline.
Transformed(q, n) ==
    LET full == SelectSeq(SubSeq(q, 1, n), LAMBDA p : p # Empty) IN
    [i \in 1..Len(full) |-> <<replaceHandleJSON(full[i], rrules).result, "\n">>]

\* C19: in line-by-line mode the non-empty lines of a written file are the
\* transformed non-empty lines of the input file, in input order; what a
\* worker has built so far are the lines it has handled, in input order.
C19_LinesKeepTheirOrder ==
    (tool = "replace" /\ lineByLine) =>
        /\ \A f \in 1..Len(rfiles) :
              results[f] # NotWritten =>
                 NonEmptyOnly(results[f].lines) = Transformed(rfiles[f], Len(rfiles[f]))
        /\ \A w \in 1..Len(workers) :
              LET wk == workers[w] IN
              NonEmptyOnly(wk.result) =
                  Transformed(rfiles[wk.file], Len(rfiles[wk.file]) - Len(wk.inputs))

\* A file of two different lines was written, changed by the rule, after
\* the worker of another file had started.
C19_Witness ==
    /\ tool = "replace" /\ lineByLine
    /\ Len(workers) = 2
    /\ \E f \in 1..Len(rfiles) :
          /\ rfiles[f] = <<RecLy, RecLx>>
          /\ results[f] # NotWritten
          /\ Len(results[f].lines) = 2
          /\ results[f].lines[2][1] # RecLx

(***************************************************************************)
(* json_replace: a rule list applied to one record                         *)
(***************************************************************************)
\* Most rules of a rule file.
MaxRules == 2

\* Rules of order 1 and 2, global and on the field a, that replace x by z
\* and z by y: what one rule writes another one can replace.
OrderedRules ==
    {[Order |-> o, Type |-> ty, FieldName |-> KeyA,
      Original |-> pair[1], Replacement |-> pair[2]] :
        o \in {1, 2}, ty \in {"per-field", "global"},
        pair \in {<< <<"x">>, <<"z">> >>, << <<"z">>, <<"y">> >>}}

\* The records of the rule lists: scalars, objects and arrays, and objects
\* of them.
RuleListRecords == Nested1 \cup ObjectsOver(Nested1)

\* NewJSONReplace: the rules of the rule file, sorted by order (rules of the
\* same order in any order), and handleJSON's decoded record.
InitRuleList ==
    /\ tool = "rules"
    /\ record \in RuleListRecords
    /\ recRules \in {rs \in SeqsUpTo(OrderedRules, MaxRules) : IsSortedByOrder(rs)}
    /\ recResult = NotApplied
    /\ recRule = <<>>
    /\ evValue = NotApplied /\ evRule = <<>> /\ evResult = NotApplied
    /\ flatInput = NotApplied /\ flatTodo = {} /\ flatPc = "none"
    /\ flatResult = NotApplied
    /\ RunIdle /\ SelectIdle /\ ReplaceIdle

\* handleJSON: the loop over replace.rules, then json.Marshal(m).
ApplyRules ==
    /\ tool = "rules"
    /\ recResult = NotApplied
    /\ recResult' = replaceHandleJSON(record, recRules).result
    /\ UNCHANGED <<tool, maxRoutines, cpc, ch, workers, reported, selVars, repVars,
                   record, recRule, recRules, evValue, evRule, evResult,
                   flatInput, flatTodo, flatPc, flatResult>>

NextRuleList == ApplyRules

SpecRuleList == InitRuleList /\ [][NextRuleList]_vars

\* The record after the first n rules of the list, each one applied alone
\* to what the rules before it left.
RECURSIVE AfterRules(_)
AfterRules(n) ==
    IF n = 0 THEN record
    ELSE replaceProcess(<<>>, AfterRules(n - 1), recRules[n])

\* C17: the rules are in ascending order and the record that handleJSON
\* returns is the record after all of them, each rule applied to what the
\* rules before it left.
C17_RulesAreCumulative ==
    (tool = "rules" /\ recResult # NotApplied) =>
        /\ IsSortedByOrder(recRules)
        /\ recResult = AfterRules(Len(recRules))

\* Two rules of different orders, the second one replacing what the first
\* one wrote: the result is neither rule's own, nor the one of the opposite
\* order.
C17_Witness ==
    /\ tool = "rules" /\ recResult # NotApplied
    /\ Len(recRules) = 2
    /\ recRules[1].Order < recRules[2].Order
    /\ recResult # replaceProcess(<<>>, record, recRules[1])
    /\ recResult # replaceProcess(<<>>, record, recRules[2])
    /\ recResult # replaceProcess(<<>>, replaceProcess(<<>>, record, recRules[2]),
                                  recRules[1])

(***************************************************************************)
(* json_flat: flat                                                         *)
(***************************************************************************)
\* strings.Split(k, "."): the texts between the dots; one text, k itself,
\* when k holds no dot.
RECURSIVE Split(_)
Split(k) ==
    LET i == IndexFrom(k, Dot, 1) IN
    IF i = 0 THEN <<k>>
    ELSE <<SubSeq(k, 1, i - 1)>> \o Split(SubSeq(k, i + 1, Len(k)))

\* The map m with m[k] = v.
MapSet(m, k, v) == [x \in DOMAIN m \cup {k} |-> IF x = k THEN v ELSE m[x]]

\* The body of flat's loop that sets the value under the first segment.
flatInsertAtFirst(m, keys, v) == [panic |-> FALSE, m |-> MapSet(m, keys[1], v)]

\* The body of flat's loop for one key of the input, on the map m: for
\* every segment but the last, the map under it is created when m has
\* nothing there, and entered (a value that is no map makes the type
\* assertion panic); the value is set under the last segment.
RECURSIVE flatInsert(_, _, _)
flatInsert(m, keys, v) ==
    IF Len(keys) = 1 THEN [panic |-> FALSE, m |-> MapSet(m, keys[1], v)]
    ELSE LET key   == keys[1]
             child == IF key \in DOMAIN m THEN m[key] ELSE Obj(<<>>)
         IN  IF ~IsObj(child) THEN [panic |-> TRUE, m |-> m]
             ELSE LET r == flatInsert(child.m, Tail(keys), v) IN
                  IF r.panic THEN [panic |-> TRUE, m |-> m]
                  ELSE [panic |-> FALSE, m |-> MapSet(m, key, Obj(r.m))]

KeyAC == <<"a", Dot, "c">>
KeyBA == <<"b", Dot, "a">>

\* The keys and the values of the objects that are flattened: 1, "x" and
\* {"b.c":1}.
FlatKeys == {KeyA, KeyB, KeyAB, KeyAC, KeyBA}
FlatValues == {Num(1), Str(<<"x">>), Obj([k \in {<<"b", Dot, "c">>} |-> Num(1)])}

FlatInputs == {Obj(f) : f \in UNION {[D -> FlatValues] : D \in SUBSET FlatKeys}}

\* handleJSON has decoded the line; flat has made its result map.
InitFlat ==
    /\ tool = "flat"
    /\ flatInput \in FlatInputs
    /\ flatTodo = DOMAIN flatInput.m
    /\ flatPc = "range"
    /\ flatResult = Obj(<<>>)
    /\ record = NotApplied /\ recRule = <<>> /\ recResult = NotApplied
    /\ recRules = <<>>
    /\ evValue = NotApplied /\ evRule = <<>> /\ evResult = NotApplied
    /\ RunIdle /\ SelectIdle /\ ReplaceIdle

\* flat: one turn of for k, v := range input, on any key not yet reached
\* (Go ranges over a map in no fixed order).
FlatKey ==
    /\ tool = "flat" /\ flatPc = "range"
    /\ \E k \in flatTodo :
         LET r == flatInsert(flatResult.m, Split(k), flatInput.m[k]) IN
         /\ flatTodo' = flatTodo \ {k}
         /\ flatPc' = IF r.panic THEN "panic" ELSE "range"
         /\ flatResult' = Obj(r.m)
    /\ UNCHANGED <<tool, maxRoutines, cpc, ch, workers, reported, selVars, repVars,
                   record, recRule, recResult, recRules, evValue, evRule, evResult,
                   flatInput>>

\* flat: return result
FlatReturn ==
    /\ tool = "flat" /\ flatPc = "range"
    /\ flatTodo = {}
    /\ flatPc' = "returned"
    /\ UNCHANGED <<tool, maxRoutines, cpc, ch, workers, reported, selVars, repVars,
                   record, recRule, recResult, recRules, evValue, evRule, evResult,
                   flatInput, flatTodo, flatResult>>

NextFlat == FlatKey \/ FlatReturn

SpecFlat == InitFlat /\ [][NextFlat]_vars

\* The segments joined with dots.
RECURSIVE Join(_)
Join(segs) ==
    IF Len(segs) = 1 THEN segs[1]
    ELSE segs[1] \o <<Dot>> \o Join(Tail(segs))

\* The leaves of the nested object v (the values that are no objects), each
\* one with the path of keys that leads to it.
RECURSIVE LeafPaths(_, _)
LeafPaths(v, path) ==
    IF IsObj(v)
    THEN UNION {LeafPaths(v.m[k], Append(path, k)) : k \in DOMAIN v.m}
    ELSE {[path |-> path, leaf |-> v]}

\* Un-flatten: the single-level object that has, for every leaf of n, the
\* key made of the leaf's path joined with dots.
Unflatten(n) ==
    LET leaves == LeafPaths(n, <<>>) IN
    Obj([k \in {Join(l.path) : l \in leaves} |->
            (CHOOSE l \in leaves : Join(l.path) = k).leaf])

IsPrefixOf(p, q) == Len(p) <= Len(q) /\ SubSeq(q, 1, Len(p)) = p

HasDottedKey(o) == \E k \in DOMAIN o.m : IndexFrom(k, Dot, 1) # 0
IsSingleLevel(o) == \A k \in DOMAIN o.m : ~IsObj(o.m[k])

\* Two keys collide when the segments of one are the first segments of the
\* other.
HasCollision(o) ==
    \E k1, k2 \in DOMAIN o.m : k1 # k2 /\ IsPrefixOf(Split(k1), Split(k2))

\* C18: flat returns an object without dotted keys as it is; of a
\* single-level object with dotted keys and without collisions it returns,
\* without panic, the nested object n whose un-flattening is the input, so
\* that flat of the un-flattening of n is n.
C18_FlattenRoundTrip ==
    tool = "flat" =>
        /\ (flatPc = "returned" /\ ~HasDottedKey(flatInput)) => flatResult = flatInput
        /\ (HasDottedKey(flatInput) /\ IsSingleLevel(flatInput) /\ ~HasCollision(flatInput)) =>
              /\ flatPc # "panic"
              /\ flatPc = "returned" =>
                    /\ Unflatten(flatResult) = flatInput
                    /\ \A k \in DOMAIN flatResult.m : IndexFrom(k, Dot, 1) = 0

\* {"a.b": .., "a.c": .., "b.a": ..} was flattened into an object with the
\* keys a and b.
C18_Witness ==
    /\ tool = "flat" /\ flatPc = "returned"
    /\ DOMAIN flatInput.m = {KeyAB, KeyAC, KeyBA}
    /\ IsSingleLevel(flatInput)
    /\ DOMAIN flatResult.m = {KeyA, KeyB}
    /\ DOMAIN flatResult.m[KeyA].m = {KeyB, <<"c">>}

(***************************************************************************)
(* json_select: evaluation and the records before                          *)
(***************************************************************************)
\* C20: what a record is routed to depends on the rule list as loaded and
\* on the record only: two workers of one run whose lines are the same
\* record choose the same output, the one that handleJSON gives for the
\* rule list as loaded.
C20_EvaluationIsStateless ==
    tool = "select" =>
        \A w1, w2 \in 1..Len(workers) :
            (routed[w1] # "" /\ routed[w2] # "") =>
                /\ workers[w1].input = workers[w2].input => routed[w1] = routed[w2]
                /\ routed[w1] = handleJSON(workers[w1].input, loaded).output

(***************************************************************************)
(* The rules as loaded and the rules during the run                        *)
(***************************************************************************)
\* C21: no evaluation changes a rule: at every moment of a run every
\* condition of json_select has the Key that the rule file gave it, and the
\* rule of json_replace has the FieldName that the rule file gave it.
C21_RulesStayAsLoaded ==
    /\ tool = "select" =>
           /\ Len(rules) = Len(loaded)
           /\ \A i \in 1..Len(rules) :
                  \A j \in 1..Len(rules[i].Conditions) :
                      rules[i].Conditions[j].Key = loaded[i].Conditions[j].Key
    /\ tool = "replace" => rule \in TimestampRules

(***************************************************************************)
(* The end of a run                                                        *)
(***************************************************************************)
\* The walk of json_replace has returned.
WalkFinished == cpc \in {"spin", "log", "done"}

\* Every worker started so far has stored its addition to processCounter.
AllCompleted == \A w \in 1..Len(workers) : workers[w].pc = "exit"

\* C22, as the code has it: once the walk of json_replace has returned,
\* processCounter equals assignCounter exactly when a worker was started
\* for every file and every worker has completed, and the run is past the
\* loop only in such a state.
C22_CountersAgreeAfterTheWalkWhenAllCompleted ==
    tool = "replace" =>
        /\ WalkFinished =>
              /\ Len(workers) = Len(rfiles)
              /\ (processCounter = assignCounter) <=> AllCompleted
        /\ cpc \in {"log", "done"} => processCounter = assignCounter /\ AllCompleted

\* The loop was left after three workers, the last of which completed while
\* the coordinator was in the loop.
C22_Witness ==
    /\ tool = "replace" /\ cpc = "log"
    /\ Len(workers) = 3 /\ processCounter = 3 /\ assignCounter = 3
    /\ advances # <<>> /\ advances[Len(advances)].worker = 3

\* C22, as stated: after the first file was assigned, processCounter equals
\* assignCounter only when the walk has returned and every started worker
\* has completed.
C22_CountersAgreeOnlyAtTheEnd ==
    (tool = "replace" /\ assignCounter > 0 /\ processCounter = assignCounter) =>
        WalkFinished /\ AllCompleted

\* C23: in both tools the run is at or past the report of success, and
\* json_select at or past the closing of its output files, only when the
\* walk has returned, a worker was started for every unit and every worker
\* has written its output; no worker is about to write then, and no worker
\* met a closed file.
C23_SuccessAfterTheLastWrite ==
    /\ tool = "select" =>
          /\ (cpc \in {"close", "log", "done"} \/ closed) =>
                /\ ~InFile
                /\ {workers[w].src : w \in 1..Len(workers)} = NonEmptyLines
                /\ \A w \in 1..Len(workers) : HasWritten(w)
                /\ TotalWritten = Len(workers)
          /\ cpc # "fatal"
    /\ (tool = "replace" /\ cpc \in {"log", "done"}) =>
              /\ walkIdx > Len(rfiles)
              /\ Len(workers) = Len(rfiles)
              /\ \A w \in 1..Len(workers) : workers[w].pc \in {"counted", "exit"}
              /\ \A f \in 1..Len(rfiles) : results[f] # NotWritten

\* json_select has closed its files while a worker that has written has
\* not yet released its slot.
C23_Witness ==
    /\ tool = "select" /\ closed
    /\ Len(workers) >= 2
    /\ \E w \in 1..Len(workers) : workers[w].pc = "release"

(***************************************************************************)
(* Runs under fair scheduling                                              *)
(***************************************************************************)
\* The steps of Exec of json_select.
CoordinatorSelect ==
    \/ CreateOutputFiles
    \/ SkipEmptyLine
    \/ DispatchLine
    \/ EndOfFile
    \/ EndOfWalk
    \/ WaitGroupWait
    \/ CloseOutputFiles
    \/ LogSuccessSelect

\* The steps of the w-th goroutine of json_select after handleJSON.
WorkerSelect(w) ==
    /\ w \in 1..Len(workers)
    /\ (WaitGroupDone(w) \/ ReleaseSlotSelect(w))

\* HandleJSON(w) can be taken.
HandleJSONEnabled(w) ==
    /\ tool = "select" /\ Alive
    /\ w \in 1..Len(workers)
    /\ workers[w].pc = "handle"

\* The steps of Exec of json_replace that the scheduler alone decides: all
\* but the end of the loop at line 192 after workers were started, which
\* also needs a read made without synchronisation to return the value that
\* a worker stored.  With no worker the loop reads what Exec itself wrote.
CoordinatorReplace ==
    \/ InitReplay
    \/ AssignFile
    \/ StartRoutine
    \/ EndOfWalkReplace
    \/ (assignCounter = 0 /\ SpinExit)
    \/ LogSuccessReplace

\* The steps of the w-th goroutine of json_replace.
WorkerReplace(w) ==
    /\ w \in 1..Len(workers)
    /\ (ReplayLock(w) \/ ReplayStore(w) \/ CounterLock(w) \/ CounterStore(w))

\* The scheduler runs a goroutine that can take a step.  A channel
\* operation, a Lock and wg.Wait return when they can; the loop of
\* json_replace runs, but no read of it is ordered after a worker's store,
\* so that no step of the scheduler makes it end.  Weak fairness of
\* HandleJSON is written out: a HandleJSON step ends HandleJSONEnabled of
\* its worker, and each worker takes the step once, so that the step is
\* taken when it can be if and only if, again and again, no worker is at it.
Fairness ==
    /\ WF_vars(CoordinatorSelect \/ \E w \in 1..Len(workers) : WorkerSelect(w))
    /\ []<>(~ \E w \in 1..Len(workers) : HandleJSONEnabled(w))
    /\ WF_vars(CoordinatorReplace \/ \E w \in 1..Len(workers) : WorkerReplace(w))

SpecFair == Init /\ [][Next]_vars /\ Fairness

\* C24: a run of either tool, whatever the limit and the number of units,
\* eventually reports success.
C24_RunEventuallyReportsSuccess == <>(cpc = "done")

\* C25: the coordinator of json_replace is at a read of processCounter only
\* while no worker is between its read and its store of the counter, as it
\* is when every access is made with the lock held.
C25_CountersAccessedUnderTheLock ==
    (tool = "replace" /\ cpc = "spin") =>
        \A w \in 1..Len(workers) : workers[w].pc # "counted"

(***************************************************************************)
(* json_replace: a timestamp rule on one record                            *)
(***************************************************************************)
\* processReplay over the maps it stamps, in the order it reaches them, from
\* the replay state time / index on: cur is the time plus the increment,
\* m[k] = int64(cur), and the state advances.
RECURSIVE processReplayFrom(_, _, _, _, _)
processReplayFrom(doc, targets, r, time, index) ==
    IF targets = <<>> THEN [doc |-> doc, time |-> time, index |-> index]
    ELSE LET cur == time + calculateIncrement(index, r.Duration, r.MaxRecords) IN
         processReplayFrom(
             SetAt(doc, Head(targets), Cut(r.FieldName).before,
                   Num(Int64(cur, r.MaxRecords))),
             Tail(targets), r, cur, index + 1)

\* handleJSON, for one rule of type timestamp, on the first record of a
\* run: replace.processReplay("", m, r) from the state Exec gave the rule.
processReplay(v, r) ==
    processReplayFrom(v, replayTargets(v, r), r, r.StartMs * r.MaxRecords, 0)

\* {"type":"timestamp","field-name":"a","duration":1000,"max-records":10,
\*  "start-ms":2000} and the same with field-name "a.b".
StampRules ==
    {[Type |-> "timestamp", Order |-> 1, FieldName |-> fn, Duration |-> 1000,
      MaxRecords |-> 10, StartMs |-> 2000] : fn \in {KeyA, KeyAB}}

InitStamp ==
    /\ tool = "stamp"
    /\ record \in Records
    /\ recRule \in StampRules
    /\ recResult = NotApplied
    /\ recRules = <<>>
    /\ evValue = NotApplied /\ evRule = <<>> /\ evResult = NotApplied
    /\ flatInput = NotApplied /\ flatTodo = {} /\ flatPc = "none"
    /\ flatResult = NotApplied
    /\ RunIdle /\ SelectIdle /\ ReplaceIdle

\* handleJSON, for one rule of type timestamp.
StampRecord ==
    /\ tool = "stamp"
    /\ recResult = NotApplied
    /\ recResult' = processReplay(record, recRule)
    /\ UNCHANGED <<tool, maxRoutines, cpc, ch, workers, reported, selVars, repVars,
                   record, recRule, recRules, evValue, evRule, evResult,
                   flatInput, flatTodo, flatPc, flatResult>>

NextStamp == StampRecord

SpecStamp == InitStamp /\ [][NextStamp]_vars

\* v with the node that the segments lead to, through objects, replaced.
RECURSIVE PutAt(_, _, _)
PutAt(v, segs, value) ==
    IF segs = <<>> THEN value
    ELSE Obj([v.m EXCEPT ![Head(segs)] = PutAt(@, Tail(segs), value)])

\* C26: a timestamp rule replaces the node that its field path leads to,
\* segment by segment, by the first timestamp, changes nothing else and
\* advances the replay state once; when the path leads to nothing the
\* record and the replay state are unchanged (stated for the records that
\* are objects without an array under the first segment).
C26_TimestampResolvesLikePerField ==
    (tool = "stamp" /\ recResult # NotApplied /\ IsObj(record)
        /\ ~(KeyA \in DOMAIN record.m /\ IsArr(record.m[KeyA]))) =>
        LET segs == Segments(recRule.FieldName)
            node == Follow(record, segs)
            cur  == recRule.StartMs * recRule.MaxRecords + recRule.Duration
        IN  IF node = Absent
            THEN recResult.doc = record /\ recResult.index = 0
            ELSE /\ recResult.doc =
                        PutAt(record, segs, Num(Int64(cur, recRule.MaxRecords)))
                 /\ recResult.index = 1

(***************************************************************************)
(* json_replace: the text a rule writes                                    *)
(***************************************************************************)
\* w is v except, at most, for string nodes, each of which is either as it
\* was or as it was with every old replaced by new.
RECURSIVE RewrittenWith(_, _, _, _)
RewrittenWith(v, w, old, new) ==
    IF IsStr(v) THEN w = v \/ w = Str(ReplaceAll(v.s, old, new))
    ELSE IF IsObj(v)
    THEN /\ IsObj(w) /\ DOMAIN w.m = DOMAIN v.m
         /\ \A k \in DOMAIN v.m : RewrittenWith(v.m[k], w.m[k], old, new)
    ELSE IF IsArr(v)
    THEN /\ IsArr(w) /\ Len(w.a) = Len(v.a)
         /\ \A i \in 1..Len(v.a) : RewrittenWith(v.a[i], w.a[i], old, new)
    ELSE w = v

\* C27: whichever string node a global or per-field rule rewrites, object
\* member or array element, its new value is the old one with every
\* original replaced by the rule's replacement.
C27_RewrittenWithTheReplacement ==
    (tool = "record" /\ recResult # NotApplied) =>
        RewrittenWith(record, recResult, recRule.Original, recRule.Replacement)

(***************************************************************************)
(* json_select with one slot                                               *)
(***************************************************************************)
\* The chunks of the workers from the w-th on that have written to output
\* o, in the order the workers were started (the order of discovery).
RECURSIVE WrittenInOrder(_, _)
WrittenInOrder(o, w) ==
    IF w > Len(workers) THEN <<>>
    ELSE (IF HasWritten(w) /\ routed[w] = o THEN << <<workers[w].input, "\n">> >> ELSE <<>>)
            \o WrittenInOrder(o, w + 1)

\* C28: with a limit of 1 at most one worker of json_select is between its
\* start and the release of its slot, every worker before the last one
\* started has written its record, the workers were started in the order
\* of the lines (file by file, line by line), and every output file holds
\* its records in that order.
C28_OneSlotSerializes ==
    (tool = "select" /\ maxRoutines = 1) =>
        /\ Cardinality(HoldingSlot) <= 1
        /\ \A w \in 1..(Len(workers) - 1) : HasWritten(w)
        /\ \A w \in 1..(Len(workers) - 1) :
              \/ workers[w].src[1] < workers[w + 1].src[1]
              \/ /\ workers[w].src[1] = workers[w + 1].src[1]
                 /\ workers[w].src[2] < workers[w + 1].src[2]
        /\ \A o \in DOMAIN outputs : outputs[o] = WrittenInOrder(o, 1)

\* A run with one slot that reported success with two different records in
\* one output file.
C28_Witness ==
    /\ tool = "select" /\ maxRoutines = 1 /\ cpc = "done"
    /\ \E o \in DOMAIN outputs :
          /\ Len(outputs[o]) >= 2
          /\ outputs[o][1] # outputs[o][2]

(***************************************************************************)
(* json_flat: colliding keys                                               *)
(***************************************************************************)
\* C29: of an object whose keys collide, flat returns an object in whatever
\* order the keys are reached: it does not fail at run time.
C29_CollisionsNeverFail ==
    (tool = "flat" /\ HasCollision(flatInput)) => flatPc # "panic"

====
